---- MODULE Spec2Model ----
(***************************************************************************)
(* The request-handling middleware of http-echo (handlers.go):             *)
(*   withAppHeaders      sets X-App-Name / X-App-Version, writes status c  *)
(*   metaResponseWriter  records status and length of what passes through  *)
(*   httpLog             times the request and, in a deferred function,    *)
(*                       writes one access-log line to the sink            *)
(* Strings are sequences of one-character strings, so that formatting,     *)
(* strings.Index and strings.TrimSpace are computed, not assumed.  The     *)
(* wrapped http.ResponseWriter is net/http's server response: it commits   *)
(* the status and a snapshot of the header map at the first final          *)
(* WriteHeader (or at the first Write, with 200), only sends a 1xx code    *)
(* as an informational response, and panics on a code outside 100..999.    *)
(***************************************************************************)
EXTENDS Integers, Sequences, FiniteSets, TLC

\* ------------------------------------------------------------------ bounds
NumReqs == 2        \* requests handled concurrently (SpecConc)
MaxCalls == 4       \* calls one downstream handler makes (Spec)
ConcCalls == 2      \* calls one downstream handler makes (SpecConc)
MaxHdrLen == 4      \* characters of an X-Forwarded-For value (SpecFwd)
MaxTime == 3        \* seconds the clock advances (SpecTime)

Reqs == 1..NumReqs
FirstReq == {1}

\* --------------------------------------------------------------- constants
httpHeaderAppName == "X-App-Name"
httpHeaderAppVersion == "X-App-Version"
versionName == "version.Name"
versionVersion == "version.Version"
StatusOK == 200
HeaderKeys == {httpHeaderAppName, httpHeaderAppVersion}
Absent == "<absent>"

SP == << " " >>
QUOTE == << "\"" >>
NL == << "\n" >>

\* The request fields the log line prints; only X-Forwarded-For varies.
Host == << "e", "x", ".", "c", "o", "m" >>
RemoteAddr == << "1", "0", ".", "0", ".", "0", ".", "1", ":", "9" >>
Method == << "G", "E", "T" >>
Path == << "/" >>
Proto == << "H", "T", "T", "P", "/", "1", ".", "1" >>
UserAgent == << "u", "a" >>

\* ------------------------------------------------------------ formatting
Digit(d) == << SubSeq(<< "0","1","2","3","4","5","6","7","8","9" >>, d + 1, d + 1)[1] >>

RECURSIVE Dec(_)
\* fmt's %d of a non-negative int
Dec(n) == IF n < 10 THEN Digit(n) ELSE Dec(n \div 10) \o Digit(n % 10)

\* %d of an int
FmtInt(n) == IF n < 0 THEN << "-" >> \o Dec(0 - n) ELSE Dec(n)

\* time.Time.Format("2006/01/02 15:04:05") of second t of the first minute
FormatTime(t) ==
    << "1","9","7","0","/","0","1","/","0","1"," ","0","0",":","0","0",":" >>
        \o Digit(t \div 10) \o Digit(t % 10)

\* time.Duration.String() of d whole seconds, d < 60
FormatDuration(d) == Dec(d) \o << "s" >>

\* Sprintf(httpLogFormat, ...): "%v %s %s \"%s %s %s\" %d %d \"%s\" %v\n"
SprintfLog(ts, host, remote, method, path, proto, status, length, ua, dur) ==
    ts \o SP \o host \o SP \o remote \o SP
       \o QUOTE \o method \o SP \o path \o SP \o proto \o QUOTE \o SP
       \o FmtInt(status) \o SP \o FmtInt(length) \o SP
       \o QUOTE \o ua \o QUOTE \o SP \o dur \o NL

\* Sprintf(httpLogFormatWithForward, ...): "%v %s %s %s \"%s %s %s\" %d %d \"%s\" %v\n"
SprintfLogWithForward(ts, host, remote, fwd, method, path, proto, status, length, ua, dur) ==
    ts \o SP \o host \o SP \o remote \o SP \o fwd \o SP
       \o QUOTE \o method \o SP \o path \o SP \o proto \o QUOTE \o SP
       \o FmtInt(status) \o SP \o FmtInt(length) \o SP
       \o QUOTE \o ua \o QUOTE \o SP \o dur \o NL

\* ---------------------------------------------------------------- strings
IsSpace(c) == c \in {" ", "\t"}

\* strings.Index(s, ","): 0-based index of the first comma, -1 if none
IndexComma(s) ==
    IF \E i \in 1..Len(s) : s[i] = ","
    THEN (CHOOSE i \in 1..Len(s) : s[i] = "," /\ \A j \in 1..(i - 1) : s[j] # ",") - 1
    ELSE -1

RECURSIVE TrimLeft(_)
TrimLeft(s) == IF s # << >> /\ IsSpace(Head(s)) THEN TrimLeft(Tail(s)) ELSE s

RECURSIVE TrimRight(_)
TrimRight(s) ==
    IF s # << >> /\ IsSpace(s[Len(s)]) THEN TrimRight(SubSeq(s, 1, Len(s) - 1)) ELSE s

\* strings.TrimSpace
TrimSpace(s) == TrimRight(TrimLeft(s))

\* r.Header.Get("X-Forwarded-For"): "" when the header is absent
HeaderGet(h) == IF h.present THEN h.value ELSE << >>

\* the forwardedFor value of httpLog's deferred function
ForwardedFor(h) ==
    LET forwardedFor == HeaderGet(h)
        idx == IndexComma(forwardedFor)
    IN  IF forwardedFor # << >>
        THEN IF idx # -1 THEN TrimSpace(SubSeq(forwardedFor, 1, idx)) ELSE forwardedFor
        ELSE << "-" >>

\* ------------------------------------------------- the wrapped real channel
NoCall == [op |-> "none", code |-> 0, bytes |-> << >>, n |-> 0, err |-> "nil"]
HeaderCall == [NoCall EXCEPT !.op = "Header"]
WriteHeaderCall(s) == [NoCall EXCEPT !.op = "WriteHeader", !.code = s]
WriteCall(b, n, err) == [NoCall EXCEPT !.op = "Write", !.bytes = b, !.n = n, !.err = err]

\* A fresh connection's response: nothing set, nothing sent.
NewChannel ==
    [header |-> [k \in HeaderKeys |-> Absent], wroteHeader |-> FALSE, status |-> 0,
     sent |-> [k \in HeaderKeys |-> Absent], info |-> << >>, calls |-> << >>]

Commit(ch, s) == [ch EXCEPT !.wroteHeader = TRUE, !.status = s, !.sent = ch.header]

\* w.writer.Header(): the live header map
RealHeader(ch) ==
    [ch |-> [ch EXCEPT !.calls = Append(@, HeaderCall)], panic |-> FALSE, n |-> 0, err |-> "nil"]

\* w.writer.WriteHeader(s)
RealWriteHeader(ch, s) ==
    LET c1 == [ch EXCEPT !.calls = Append(@, WriteHeaderCall(s))]
    IN  IF ch.wroteHeader
        THEN [ch |-> c1, panic |-> FALSE, n |-> 0, err |-> "nil"]
        ELSE IF s < 100 \/ s > 999
        THEN [ch |-> c1, panic |-> TRUE, n |-> 0, err |-> "nil"]
        ELSE IF s >= 100 /\ s <= 199 /\ s # 101
        THEN [ch |-> [c1 EXCEPT !.info = Append(@, s)], panic |-> FALSE, n |-> 0, err |-> "nil"]
        ELSE [ch |-> Commit(c1, s), panic |-> FALSE, n |-> 0, err |-> "nil"]

\* w.writer.Write(b); fail: the connection refuses the bytes
RealWrite(ch, b, fail) ==
    LET n == IF fail THEN 0 ELSE Len(b)
        err == IF fail THEN "EPIPE" ELSE "nil"
        c1 == IF ch.wroteHeader THEN ch ELSE Commit(ch, StatusOK)
    IN  [ch |-> [c1 EXCEPT !.calls = Append(@, WriteCall(b, n, err))],
         panic |-> FALSE, n |-> n, err |-> err]

\* ---------------------------------------------------- metaResponseWriter
NewMeta == [status |-> 0, length |-> 0]

\* one metaResponseWriter shared by every invocation
mrwShared(r) == 1

\* the metaResponseWriter a request's handler invocation works on: its own
mrwOf(r) == r

\* metaResponseWriter.Header
MetaHeader(m, ch) == [mrw |-> m, res |-> RealHeader(ch)]

\* WriteHeader that forwards without recording the status
MetaWriteHeaderForwardOnly(m, ch, s) == [mrw |-> m, res |-> RealWriteHeader(ch, s)]

\* metaResponseWriter.WriteHeader
MetaWriteHeader(m, ch, s) ==
    [mrw |-> [m EXCEPT !.status = s], res |-> RealWriteHeader(ch, s)]

\* Write that sets 200 whatever the status was
MetaWriteAlwaysOK(m, ch, b, fail) ==
    LET m2 == [m EXCEPT !.status = StatusOK, !.length = Len(b)]
        res == RealWrite(ch, b, fail)
    IN  [mrw |-> m2, res |-> res, n |-> res.n, err |-> res.err]

\* Write that adds up the lengths
MetaWriteSum(m, ch, b, fail) ==
    LET m1 == IF m.status = 0 THEN [m EXCEPT !.status = StatusOK] ELSE m
        m2 == [m1 EXCEPT !.length = @ + Len(b)]
        res == RealWrite(ch, b, fail)
    IN  [mrw |-> m2, res |-> res, n |-> res.n, err |-> res.err]

\* Write that reports success whatever the wrapped channel returned
MetaWriteSwallow(m, ch, b, fail) ==
    LET m1 == IF m.status = 0 THEN [m EXCEPT !.status = StatusOK] ELSE m
        m2 == [m1 EXCEPT !.length = Len(b)]
        res == RealWrite(ch, b, fail)
    IN  [mrw |-> m2, res |-> res, n |-> Len(b), err |-> "nil"]

\* metaResponseWriter.Write
MetaWrite(m, ch, b, fail) ==
    LET m1 == IF m.status = 0 THEN [m EXCEPT !.status = StatusOK] ELSE m
        m2 == [m1 EXCEPT !.length = Len(b)]
        res == RealWrite(ch, b, fail)
    IN  [mrw |-> m2, res |-> res, n |-> res.n, err |-> res.err]

\* ------------------------------------------------------------------ state
VARIABLES
    env,         \* value of LOG_FORWARDED_FOR: "" or "1"
    now,         \* the wall clock, in seconds
    handler,     \* "log": httpLog(out, h); "app": httpLog(out, withAppHeaders(c, h))
    statusCode,  \* c of withAppHeaders
    pc,          \* where each request's handler invocation is
    outcome,     \* how h ended: "none", "returned", "panicked"
    req,         \* each request: its X-Forwarded-For header
    start,       \* the start time handed to the deferred function
    mrw,         \* the metaResponseWriter values
    real,        \* each request's real response channel
    made,        \* the calls made on each request's capturing channel, as the caller saw them
    out,         \* the sink: the Write calls it received
    ran          \* when h was invoked and when it ended, by the clock; -1: not yet

vars == << env, now, handler, statusCode, pc, outcome, req, start, mrw, real, made, out, ran >>

NoXff == [present |-> FALSE, value |-> << >>]
Xff(s) == [present |-> TRUE, value |-> s]

InitWith(handlers, codes) ==
    /\ env = ""
    /\ now = 0
    /\ handler \in handlers
    /\ statusCode \in codes
    /\ pc = [r \in Reqs |-> "idle"]
    /\ outcome = [r \in Reqs |-> "none"]
    /\ req = [r \in Reqs |-> [xff |-> NoXff]]
    /\ start = [r \in Reqs |-> 0]
    /\ mrw = [r \in Reqs |-> NewMeta]
    /\ real = [r \in Reqs |-> NewChannel]
    /\ made = [r \in Reqs |-> << >>]
    /\ out = << >>
    /\ ran = [r \in Reqs |-> [from |-> -1, to |-> -1]]

\* What a call made through the capturing channel leaves behind.
AfterCall(r, x, call, nextpc) ==
    /\ mrw' = [mrw EXCEPT ![mrwOf(r)] = x.mrw]
    /\ real' = [real EXCEPT ![r] = x.res.ch]
    /\ made' = [made EXCEPT ![r] = Append(@, call)]
    /\ pc' = [pc EXCEPT ![r] = IF x.res.panic THEN "deferred" ELSE nextpc]
    /\ outcome' = [outcome EXCEPT ![r] = IF x.res.panic THEN "panicked" ELSE @]
    /\ ran' = IF x.res.panic THEN [ran EXCEPT ![r].to = now]
              ELSE IF nextpc = "h" /\ pc[r] # "h" THEN [ran EXCEPT ![r].from = now]
              ELSE ran

\* httpLog's handler up to h(&mrw, r): a fresh mrw, the deferred function armed with time.Now()
Begin(r, xffs) ==
    /\ pc[r] = "idle"
    /\ \E x \in xffs : req' = [req EXCEPT ![r] = [xff |-> x]]
    /\ mrw' = [mrw EXCEPT ![mrwOf(r)] = NewMeta]
    /\ start' = [start EXCEPT ![r] = now]
    /\ pc' = [pc EXCEPT ![r] = IF handler = "app" THEN "app_name" ELSE "h"]
    /\ ran' = IF handler = "app" THEN ran ELSE [ran EXCEPT ![r].from = now]
    /\ UNCHANGED << env, now, handler, statusCode, outcome, real, made, out >>

\* w.Header().Set(k, v) on the capturing channel
HeaderSet(r, k, v, nextpc) ==
    LET x == MetaHeader(mrw[mrwOf(r)], real[r])
        y == [x EXCEPT !.res.ch.header[k] = v]
    IN  AfterCall(r, y, HeaderCall, nextpc)

\* the status written first, the name header never set
AppStatusFirst(r) ==
    /\ pc[r] = "app_name"
    /\ AfterCall(r, MetaWriteHeader(mrw[mrwOf(r)], real[r], statusCode),
                 WriteHeaderCall(statusCode), "app_version")
    /\ UNCHANGED << env, now, handler, statusCode, req, start, out >>

\* withAppHeaders: w.Header().Set(httpHeaderAppName, version.Name)
AppSetName(r) ==
    /\ pc[r] = "app_name"
    /\ HeaderSet(r, httpHeaderAppName, versionName, "app_version")
    /\ UNCHANGED << env, now, handler, statusCode, req, start, out >>

\* the version header set to the name
AppSetVersionToName(r) ==
    /\ pc[r] = "app_version"
    /\ HeaderSet(r, httpHeaderAppVersion, versionName, "app_status")
    /\ UNCHANGED << env, now, handler, statusCode, req, start, out >>

\* withAppHeaders: w.Header().Set(httpHeaderAppVersion, version.Version)
AppSetVersion(r) ==
    /\ pc[r] = "app_version"
    /\ HeaderSet(r, httpHeaderAppVersion, versionVersion, "app_status")
    /\ UNCHANGED << env, now, handler, statusCode, req, start, out >>

\* withAppHeaders: w.WriteHeader(c), then h(w, r)
AppWriteHeader(r) ==
    /\ pc[r] = "app_status"
    /\ AfterCall(r, MetaWriteHeader(mrw[mrwOf(r)], real[r], statusCode),
                 WriteHeaderCall(statusCode), "h")
    /\ UNCHANGED << env, now, handler, statusCode, req, start, out >>

\* the calls h has made so far
DownCalls(r) == Len(made[r]) - (IF handler = "app" THEN 3 ELSE 0)

OpWriteHeader(s) == [kind |-> "WriteHeader", code |-> s, bytes |-> << >>, fail |-> FALSE, key |-> "", val |-> ""]
OpWrite(b, fail) == [kind |-> "Write", code |-> 0, bytes |-> b, fail |-> fail, key |-> "", val |-> ""]
OpSet(k, v) == [kind |-> "Set", code |-> 0, bytes |-> << >>, fail |-> FALSE, key |-> k, val |-> v]
OpDel(k) == [kind |-> "Del", code |-> 0, bytes |-> << >>, fail |-> FALSE, key |-> k, val |-> ""]

\* the downstream handler h makes one call on the channel it was given
Downstream(r, ops, maxCalls) ==
    /\ pc[r] = "h"
    /\ DownCalls(r) < maxCalls
    /\ \E op \in ops :
          \/ /\ op.kind = "WriteHeader"
             /\ AfterCall(r, MetaWriteHeader(mrw[mrwOf(r)], real[r], op.code),
                          WriteHeaderCall(op.code), "h")
          \/ /\ op.kind = "Write"
             /\ LET x == MetaWrite(mrw[mrwOf(r)], real[r], op.bytes, op.fail)
                IN  AfterCall(r, x, WriteCall(op.bytes, x.n, x.err), "h")
          \/ /\ op.kind = "Set"
             /\ HeaderSet(r, op.key, op.val, "h")
          \/ /\ op.kind = "Del"
             /\ HeaderSet(r, op.key, Absent, "h")
    /\ UNCHANGED << env, now, handler, statusCode, req, start, out >>

\* h returns
Return(r) ==
    /\ pc[r] = "h"
    /\ pc' = [pc EXCEPT ![r] = "deferred"]
    /\ outcome' = [outcome EXCEPT ![r] = "returned"]
    /\ ran' = [ran EXCEPT ![r].to = now]
    /\ UNCHANGED << env, now, handler, statusCode, req, start, mrw, real, made, out >>

\* h panics
Panic(r) ==
    /\ pc[r] = "h"
    /\ pc' = [pc EXCEPT ![r] = "deferred"]
    /\ outcome' = [outcome EXCEPT ![r] = "panicked"]
    /\ ran' = [ran EXCEPT ![r].to = now]
    /\ UNCHANGED << env, now, handler, statusCode, req, start, mrw, real, made, out >>

\* the line written in two pieces
FprintfTwoWrites(sink, r, line, rec) ==
    sink \o << [req |-> r, bytes |-> SubSeq(line, 1, Len(line) - 1), rec |-> rec],
               [req |-> r, bytes |-> NL, rec |-> rec] >>

\* fmt.Fprintf(out, format, ...): the formatted line goes to out in one Write
Fprintf(sink, r, line, rec) == Append(sink, [req |-> r, bytes |-> line, rec |-> rec])

\* the log step placed after h(&mrw, r) instead of in a defer
RunsOnReturnOnly(how) == how = "returned"

\* whether the deferred function of httpLog runs after h ended this way
DeferredRuns(how) == how \in {"returned", "panicked"}

\* the toggle as it was when the process started
GetenvAtStart(e) == ""

\* os.Getenv(httpLogEnvForwardedFor), e being the environment's value now
Getenv(e) == e

\* the request-start time printed as the timestamp
StampStart(startT, endT) == startT

\* the time the log line is stamped with: end.Format(...)
Stamp(startT, endT) == endT

\* httpLog's deferred function
LogRequest(r) ==
    /\ pc[r] = "deferred"
    /\ pc' = [pc EXCEPT ![r] = "done"]
    /\ LET status == mrw[mrwOf(r)].status
           length == mrw[mrwOf(r)].length
           end == now
           dur == end - start[r]
           forward == Getenv(env) # ""
           forwardedFor == ForwardedFor(req[r].xff)
           rec == [status |-> status, length |-> length, end |-> end, dur |-> dur,
                   forward |-> forward,
                   forwardedFor |-> IF forward THEN forwardedFor ELSE << >>,
                   xff |-> req[r].xff, env |-> env, at |-> now, abrupt |-> outcome[r] = "panicked"]
       IN  IF ~DeferredRuns(outcome[r])
           THEN out' = out
           ELSE IF forward
           THEN out' = Fprintf(out, r,
                    SprintfLogWithForward(FormatTime(Stamp(start[r], end)), Host, RemoteAddr, forwardedFor,
                        Method, Path, Proto, status, length, UserAgent, FormatDuration(dur)),
                    rec)
           ELSE out' = Fprintf(out, r,
                    SprintfLog(FormatTime(Stamp(start[r], end)), Host, RemoteAddr,
                        Method, Path, Proto, status, length, UserAgent, FormatDuration(dur)),
                    rec)
    /\ UNCHANGED << env, now, handler, statusCode, outcome, req, start, mrw, real, made, ran >>

\* the environment variable LOG_FORWARDED_FOR is set or cleared
SetEnv ==
    /\ env' = IF env = "" THEN "1" ELSE ""
    /\ UNCHANGED << now, handler, statusCode, pc, outcome, req, start, mrw, real, made, out, ran >>

\* a second passes; time.Now() is read off this clock
Tick ==
    /\ now < MaxTime
    /\ now' = now + 1
    /\ UNCHANGED << env, handler, statusCode, pc, outcome, req, start, mrw, real, made, out, ran >>

\* ------------------------------------------------------- specifications
Body3 == << 7, 8, 9 >>
Body10 == << 1, 2, 3, 4, 5, 6, 7, 8, 9, 10 >>

\* what an arbitrary downstream handler may do with its channel
RichOps ==
    {OpWriteHeader(s) : s \in {0, 404}}
        \cup {OpWrite(b, f) : b \in {Body3, Body10}, f \in BOOLEAN}
        \cup {OpSet(httpHeaderAppName, "evil"), OpDel(httpHeaderAppVersion)}

Init == InitWith({"log", "app"}, {0, 103, 200})

Next ==
    \E r \in FirstReq :
        \/ Begin(r, {NoXff})
        \/ AppSetName(r)
        \/ AppSetVersion(r)
        \/ AppWriteHeader(r)
        \/ Downstream(r, RichOps, MaxCalls)
        \/ Return(r)
        \/ Panic(r)
        \/ LogRequest(r)

\* one request, any downstream handler
Spec == Init /\ [][Next]_vars

\* X-Forwarded-For values: absent, or any string of these characters
HdrChars == {"1", ",", " "}
HdrStrings == UNION {[1..n -> HdrChars] : n \in 0..MaxHdrLen}
XffValues == {NoXff} \cup {Xff(s) : s \in HdrStrings}

InitFwd == InitWith({"log"}, {200})

NextFwd ==
    \/ \E r \in FirstReq :
        \/ Begin(r, XffValues)
        \/ Downstream(r, {OpWrite(Body3, FALSE)}, ConcCalls)
        \/ Return(r)
        \/ LogRequest(r)
    \/ SetEnv

\* one request, any X-Forwarded-For header, the toggle changing at any time
SpecFwd == InitFwd /\ [][NextFwd]_vars

ConcOps == {OpWriteHeader(404), OpWrite(Body3, FALSE)}
ConcXff == {Xff(<< "1", ",", " ", "2" >>)}

InitConc == InitWith({"log"}, {200})

NextConc ==
    \/ \E r \in Reqs :
        \/ Begin(r, ConcXff)
        \/ Downstream(r, ConcOps, ConcCalls)
        \/ Return(r)
        \/ LogRequest(r)
    \/ SetEnv

\* requests handled concurrently, the toggle changing at any time
SpecConc == InitConc /\ [][NextConc]_vars

InitTime == InitWith({"log", "app"}, {200})

NextTime ==
    \/ \E r \in FirstReq :
        \/ Begin(r, {NoXff})
        \/ AppSetName(r)
        \/ AppSetVersion(r)
        \/ AppWriteHeader(r)
        \/ Downstream(r, {OpWrite(Body3, FALSE)}, ConcCalls)
        \/ Return(r)
        \/ Panic(r)
        \/ LogRequest(r)
    \/ Tick

\* one request, the clock advancing at any time
SpecTime == InitTime /\ [][NextTime]_vars

\* ------------------------------------------------------------- properties
IsStatusOrWrite(c) == c.op \in {"WriteHeader", "Write"}
IsWrite(c) == c.op = "Write"
IsWriteHeader(c) == c.op = "WriteHeader"

\* the set_status and write calls made on request r's capturing channel, in order
StatusCalls(r) == SelectSeq(made[r], IsStatusOrWrite)

\* the log lines written for request r
LinesOf(r) == {i \in 1..Len(out) : out[i].req = r}

\* C2 (as claimed): no log line ever reports status 0.
C2_StatusNeverZero == \A i \in 1..Len(out) : out[i].rec.status # 0

\* C3: when the first status/write call is set_status(code) with code # 0 and only
\* writes follow, the captured status is code, and so is the logged status.
C3_ExplicitStatusKept ==
    \A r \in Reqs :
        LET cs == StatusCalls(r)
        IN  (/\ cs # << >>
             /\ IsWriteHeader(cs[1]) /\ cs[1].code # 0
             /\ \A i \in 2..Len(cs) : IsWrite(cs[i]))
            => /\ mrw[r].status = cs[1].code
               /\ \A i \in LinesOf(r) : out[i].rec.status = cs[1].code

C3_Witness ==
    LET cs == StatusCalls(1)
    IN  /\ Len(cs) = 3
        /\ cs[1] = WriteHeaderCall(404) /\ IsWrite(cs[2]) /\ IsWrite(cs[3])
        /\ mrw[1].status = 404
        /\ pc[1] = "done" /\ out[1].rec.status = 404

\* C4: after one or more writes and no set_status, the captured status is 200 and
\* the captured length is the byte length of the last write alone.
C4_LastWriteLength ==
    \A r \in Reqs :
        LET cs == StatusCalls(r)
        IN  (cs # << >> /\ \A i \in 1..Len(cs) : IsWrite(cs[i]))
            => /\ mrw[r].status = 200
               /\ mrw[r].length = Len(cs[Len(cs)].bytes)

C4_Witness ==
    LET cs == StatusCalls(1)
    IN  /\ Len(cs) = 2
        /\ IsWrite(cs[1]) /\ cs[1].bytes = Body10
        /\ IsWrite(cs[2]) /\ cs[2].bytes = Body3
        /\ mrw[1].status = 200 /\ mrw[1].length = 3

AppHeadersSent(ch) ==
    /\ ch.sent[httpHeaderAppName] = versionName
    /\ ch.sent[httpHeaderAppVersion] = versionVersion

\* a 1xx code that net/http sends as an informational response
Informational(c) == c >= 100 /\ c <= 199 /\ c # 101

\* C6 (as claimed): every response committed through withAppHeaders carries both
\* headers with the configured values.
C6_HeadersOnEveryResponse ==
    \A r \in Reqs : (handler = "app" /\ real[r].wroteHeader) => AppHeadersSent(real[r])

\* C6 (amended): the same, for a configured status code that is not informational.
C6_HeadersOnFinalStatus ==
    \A r \in Reqs :
        (handler = "app" /\ ~Informational(statusCode) /\ real[r].wroteHeader)
            => AppHeadersSent(real[r])

C6_Witness ==
    /\ handler = "app" /\ statusCode = 200
    /\ real[1].wroteHeader
    /\ real[1].header[httpHeaderAppName] = "evil"
    /\ real[1].header[httpHeaderAppVersion] = Absent
    /\ Len(SelectSeq(made[1], IsWriteHeader)) = 2
    /\ AppHeadersSent(real[1])

\* C7 (as claimed): no log line is written for a request whose handler panicked.
C7_NoLineOnPanic == \A i \in 1..Len(out) : ~out[i].rec.abrupt

\* C7 (amended): the deferred function writes exactly one line once the downstream
\* handler has ended, whether it returned or panicked, and none before.
C7_LineOnReturnAndPanic ==
    \A r \in Reqs :
        Cardinality(LinesOf(r)) = IF pc[r] = "done" THEN 1 ELSE 0

C7_Witness ==
    /\ pc[1] = "done" /\ outcome[1] = "panicked"
    /\ Cardinality(LinesOf(1)) = 1
    /\ out[1].rec.abrupt

\* C8: the wrapped channel receives exactly the calls made on the capturing channel,
\* in order, with the same arguments, and each write returned what the wrapped
\* channel's write returned.
C8_TransparentProxy == \A r \in Reqs : real[r].calls = made[r]

C8_Witness ==
    /\ \E i \in 1..Len(made[1]) : made[1][i] = WriteCall(Body3, 0, "EPIPE")
    /\ \E i \in 1..Len(made[1]) : made[1][i] = WriteCall(Body10, 10, "nil")
    /\ \E i \in 1..Len(made[1]) : made[1][i] = WriteHeaderCall(404)
    /\ \E i \in 1..Len(made[1]) : made[1][i] = HeaderCall
    /\ real[1].calls = made[1]

\* --------------------------------------------- the log line as specified
RECURSIVE JoinSP(_)
JoinSP(ts) == IF Len(ts) = 1 THEN ts[1] ELSE ts[1] \o SP \o JoinSP(Tail(ts))

Quoted(s) == QUOTE \o s \o QUOTE

\* <end-timestamp> <request-host> <remote-address> [<forwarded-address>]
\* "<method> <path> <protocol>" <status> <length> "<user-agent>" <duration>\n
SpecLine(rec, withForward) ==
    JoinSP(<< FormatTime(rec.end), Host, RemoteAddr >>
           \o (IF withForward THEN << rec.forwardedFor >> ELSE << >>)
           \o << Quoted(JoinSP(<< Method, Path, Proto >>)),
                 FmtInt(rec.status), FmtInt(rec.length),
                 Quoted(UserAgent), FormatDuration(rec.dur) >>) \o NL

Newlines(s) == {i \in 1..Len(s) : s[i] = "\n"}

\* C1: under any interleaving, a request whose handler has ended and whose deferred
\* function has run has exactly one write in the sink, none before; every write is
\* one complete formatted line whose only newline is its last character.
C1_OneLinePerRequest ==
    /\ \A r \in Reqs : Cardinality(LinesOf(r)) = IF pc[r] = "done" THEN 1 ELSE 0
    /\ \A i \in 1..Len(out) :
          /\ out[i].bytes = SpecLine(out[i].rec, out[i].rec.forward)
          /\ Newlines(out[i].bytes) = {Len(out[i].bytes)}
          /\ outcome[out[i].req] # "none"

C1_Witness ==
    /\ \A r \in Reqs : pc[r] = "done"
    /\ Len(out) = NumReqs
    /\ out[1].req = NumReqs
    /\ \A i \in 1..Len(out) : Newlines(out[i].bytes) = {Len(out[i].bytes)}

\* the first comma-separated entry of s
FirstEntry(s) == IF IndexComma(s) = -1 THEN s ELSE SubSeq(s, 1, IndexComma(s))

\* the forwarded-address field as specified
SpecForwarded(h) ==
    IF ~h.present \/ h.value = << >> THEN << "-" >> ELSE TrimSpace(FirstEntry(h.value))

\* C5 (as claimed): with forwarding enabled the forwarded-address field is the first
\* comma-separated entry of X-Forwarded-For trimmed of surrounding whitespace, or "-"
\* when the header is absent or empty.
C5_ForwardedField ==
    \A i \in 1..Len(out) :
        out[i].rec.forward => out[i].rec.forwardedFor = SpecForwarded(out[i].rec.xff)

\* C9: a log line has the forwarded-address field, after the remote address, exactly
\* when LOG_FORWARDED_FOR was non-empty at the moment the line was written.
C9_ToggleReadPerRequest ==
    \A i \in 1..Len(out) :
        /\ out[i].rec.forward = (out[i].rec.env # "")
        /\ out[i].bytes = SpecLine(out[i].rec, out[i].rec.env # "")

C9_Witness ==
    /\ Len(out) = 2
    /\ out[1].rec.env = "1" /\ out[1].bytes = SpecLine(out[1].rec, TRUE)
    /\ out[2].rec.env = "" /\ out[2].bytes = SpecLine(out[2].rec, FALSE)
    /\ Len(out[1].bytes) > Len(out[2].bytes)

RECURSIVE CapturedStatus(_)
\* the status a capturing channel holds after calls cs, and no others
CapturedStatus(cs) ==
    IF cs = << >> THEN 0
    ELSE LET c == cs[Len(cs)]
             before == CapturedStatus(SubSeq(cs, 1, Len(cs) - 1))
         IN  IF IsWriteHeader(c) THEN c.code
             ELSE IF IsWrite(c) /\ before = 0 THEN 200
             ELSE before

\* the length a capturing channel holds after calls cs, and no others
CapturedLength(cs) ==
    LET ws == SelectSeq(cs, IsWrite)
    IN  IF ws = << >> THEN 0 ELSE Len(ws[Len(ws)].bytes)

\* C10: under any interleaving the status and length of a request's log line are
\* those its own handler's calls produce.
C10_RequestLocal ==
    \A i \in 1..Len(out) :
        /\ out[i].rec.status = CapturedStatus(made[out[i].req])
        /\ out[i].rec.length = CapturedLength(made[out[i].req])

C10_Witness ==
    /\ Len(out) = 2
    /\ out[1].req = 2 /\ out[1].rec.status = 200 /\ out[1].rec.length = 3
    /\ out[2].req = 1 /\ out[2].rec.status = 404 /\ out[2].rec.length = 0
    /\ made[1] = << WriteHeaderCall(404) >>

\* what withAppHeaders has called once it hands over to h
AppPrefix == << HeaderCall, HeaderCall, WriteHeaderCall(statusCode) >>

\* C11: withAppHeaders sets both headers, then writes status c once, and only then
\* invokes h on the same channel: while it has not handed over, the channel has seen
\* no set_status or write except its own; when it writes c both headers are set;
\* once h runs, the channel's first three calls are Header, Header, WriteHeader(c)
\* and every call of h follows them on that channel.
C11_HeadersStatusThenHandler ==
    \A r \in Reqs :
        handler = "app" =>
            /\ pc[r] \in {"app_name", "app_version", "app_status"} => StatusCalls(r) = << >>
            /\ pc[r] = "app_status" =>
                  /\ made[r] = << HeaderCall, HeaderCall >>
                  /\ real[r].header[httpHeaderAppName] = versionName
                  /\ real[r].header[httpHeaderAppVersion] = versionVersion
            /\ (pc[r] = "h" \/ ran[r].from # -1) =>
                  /\ Len(real[r].calls) >= 3
                  /\ SubSeq(real[r].calls, 1, 3) = AppPrefix
            /\ Len(made[r]) > 3 => ran[r].from # -1
            /\ Len(made[r]) >= 3 => SubSeq(made[r], 1, 3) = AppPrefix

C11_Witness ==
    /\ handler = "app" /\ statusCode = 200
    /\ pc[1] = "h"
    /\ Len(made[1]) = 5
    /\ SubSeq(made[1], 1, 3) = AppPrefix
    /\ made[1][4] = WriteHeaderCall(404)
    /\ IsWrite(made[1][5])
    /\ real[1].calls = made[1]

\* request r's capturing channel has just been written to
WriteStep(r) ==
    /\ Len(made'[r]) = Len(made[r]) + 1
    /\ IsWrite(made'[r][Len(made'[r])])

\* set_status(0) has been called on request r's capturing channel
ZeroStatusSet(r) == \E i \in 1..Len(made[r]) : made[r][i] = WriteHeaderCall(0)

C13_EndTimeAndDuration ==
    \A i \in 1..Len(out) :
        LET r == out[i].req
            rec == out[i].rec
        IN  /\ start[r] <= ran[r].from
            /\ ran[r].from <= ran[r].to \/ ran[r].from = -1
            /\ ran[r].to <= rec.at
            /\ rec.end = rec.at
            /\ rec.dur = rec.at - start[r]
            /\ rec.dur >= 0
            /\ out[i].bytes = SpecLine([rec EXCEPT !.end = rec.at, !.dur = rec.at - start[r]],
                                       rec.forward)

C13_Witness ==
    /\ Len(out) = 1
    /\ start[1] = 0 /\ ran[1].from = 1 /\ ran[1].to = 2 /\ out[1].rec.at = 3
    /\ out[1].rec.dur = 3
    /\ SubSeq(out[1].bytes, 1, 19) = FormatTime(3)

\* C14 (as claimed): the status in a request's log line is the status the real
\* response channel committed for it.
C14_LoggedStatusIsSentStatus ==
    \A i \in 1..Len(out) :
        real[out[i].req].wroteHeader => out[i].rec.status = real[out[i].req].status

====
